---------------------------- MODULE Spec2Model ----------------------------
(***************************************************************************)
(* KPIChecker: the ordered Pattern Set (kpichecker/config.py), the         *)
(* classifier KPIChecker.check_text and the aggregator                     *)
(* KPIChecker.analyze_results (kpichecker/kpi_checker.py), and the report   *)
(* phase of main (main.py, kpichecker/report_generator.py); the document   *)
(* reader DocxParser (kpichecker/docx_parser.py), the fixer FileFixer      *)
(* (kpichecker/file_fixer.py) and a whole run of main.                     *)
(*                                                                         *)
(* Text is a sequence of tokens.  A token stands for one character         *)
(* ("2", "分" = "fen", " " = "sp") or for a run of characters that the      *)
(* patterns only ever use as a whole ("季度" = "jidu", "考核自评" = "khzp",   *)
(* "自评得分" = "zpdf").  "nl" is a line break, "us" an underscore, "dot"   *)
(* the full stop "。".                                                     *)
(***************************************************************************)
EXTENDS Integers, Sequences, FiniteSets, TLC

----------------------------------------------------------------------------
(* Bounds of the model *)

\* fragments concatenated to form one text handed to check_text
MaxFrags == 2
\* add_kpi_pattern calls recorded after "kpi_patterns" was last bound
MaxCalls == 3
\* documents of a batch, entries of a verdict map
MaxFiles == 3

----------------------------------------------------------------------------
(* Python values: None, str (a token sequence), int *)

PyNone == [kind |-> "none", s |-> <<>>, n |-> 0]
PyStr(s) == [kind |-> "str", s |-> s, n |-> 0]
PyInt(n) == [kind |-> "int", s |-> <<>>, n |-> n]

\* Python truth value of None, a str or an int
Truthy(v) ==
    CASE v.kind = "none" -> FALSE
      [] v.kind = "str"  -> Len(v.s) > 0
      [] OTHER           -> v.n # 0

----------------------------------------------------------------------------
(* Tokens and character classes of the regular expressions *)

DIGIT == {"0", "1", "2", "4", "5", "7", "8", "9"}
SPACE == {"sp", "nl"}
\* the class [一二三四]
QUARTER == {"yi", "er", "san", "si"}
Alphabet ==
    DIGIT \cup SPACE \cup QUARTER \cup
    {"nian", "di", "jidu", "KPI", "khzp", "zpdf", "fen", "x", "us", "dot"}
NONSPACE == Alphabet \ SPACE

\* One element of a regular expression: a character class repeated lo..hi
\* times (hi = -1: no upper limit), inside capture group grp (0: none).
\* opt marks a group that is itself optional, "(...)?".
Rep(cls, lo, hi, grp) == [cls |-> cls, lo |-> lo, hi |-> hi, grp |-> grp, opt |-> FALSE]
Lit(t) == Rep({t}, 1, 1, 0)
OptGroup(cls, lo, hi, grp) == [cls |-> cls, lo |-> lo, hi |-> hi, grp |-> grp, opt |-> TRUE]

\* The pattern strings.  P0..P4 are the defaults of Config.__init__; the
\* others are patterns a configuration file or add_kpi_pattern may supply:
\*   PY  (\d{4})年KPI(\d{1,3})分     a {year, score} pattern
\*   PE  KPI(\d*)分                  score capture may be empty
\*   PO  KPI(\d+)?分                 score group may not participate
\*   PN  KPI(\S{1,3})分              score capture need not be numeric
DefaultIds == {"P0", "P1", "P2", "P3", "P4"}
\*   PBAD (\d{1,3}分                  not a regular expression: re.error
CustomIds == {"PY", "PE", "PO", "PN"}
Malformed == {"PBAD"}
PatternIds == DefaultIds \cup CustomIds \cup Malformed

\* re.compile(pattern)
Compile(p) ==
    CASE p = "P0" -> << Rep(DIGIT, 4, 4, 1), Rep({"nian"}, 0, 1, 0), Rep({"di"}, 0, 1, 0),
                        Rep(QUARTER, 1, 1, 0), Lit("jidu"), Lit("KPI"), Lit("khzp"),
                        Rep(DIGIT, 1, 3, 2), Lit("fen") >>
      [] p = "P1" -> << Lit("jidu"), Lit("KPI"), Lit("khzp"), Rep(DIGIT, 1, 3, 1), Lit("fen") >>
      [] p = "P2" -> << Lit("KPI"), Rep(SPACE, 0, -1, 0), Lit("zpdf"), Rep(SPACE, 0, -1, 0),
                        Rep(DIGIT, 1, 3, 1), Rep(SPACE, 0, -1, 0), Lit("fen") >>
      [] p = "P3" -> << Lit("zpdf"), Rep(SPACE, 0, -1, 0),
                        Rep(DIGIT, 1, 3, 1), Rep(SPACE, 0, -1, 0), Lit("fen") >>
      [] p = "P4" -> << Lit("KPI"), Lit("khzp"), Rep(DIGIT, 1, 3, 1), Lit("fen") >>
      [] p = "PY" -> << Rep(DIGIT, 4, 4, 1), Lit("nian"), Lit("KPI"),
                        Rep(DIGIT, 1, 3, 2), Lit("fen") >>
      [] p = "PE" -> << Lit("KPI"), Rep(DIGIT, 0, -1, 1), Lit("fen") >>
      [] p = "PO" -> << Lit("KPI"), OptGroup(DIGIT, 1, -1, 1), Lit("fen") >>
      [] OTHER    -> << Lit("KPI"), Rep(NONSPACE, 1, 3, 1), Lit("fen") >>

\* number of capture groups of a compiled pattern
RECURSIVE NGroupsFrom(_, _)
NGroupsFrom(items, k) ==
    IF k > Len(items) THEN 0
    ELSE LET rest == NGroupsFrom(items, k + 1)
         IN IF items[k].grp > rest THEN items[k].grp ELSE rest
NGroups(items) == NGroupsFrom(items, 1)

----------------------------------------------------------------------------
(* The backtracking matcher of the re module: greedy repetition, the first *)
(* alternative that lets the rest of the pattern match is taken.           *)

\* length of the run of tokens of class cls in text from position pos
RECURSIVE RunLen(_, _, _)
RunLen(cls, text, pos) ==
    IF pos <= Len(text) /\ text[pos] \in cls
    THEN 1 + RunLen(cls, text, pos + 1)
    ELSE 0

NoMatch == [ok |-> FALSE, start |-> 0, end |-> 0, caps |-> <<PyNone, PyNone>>]

SetCap(caps, g, v) == IF g = 0 THEN caps ELSE [caps EXCEPT ![g] = v]

RECURSIVE MatchItems(_, _, _, _, _)
RECURSIVE TryCount(_, _, _, _, _, _)
\* match items[k..] against text from pos; start is the match's first position
MatchItems(items, k, text, start, pos) ==
    IF k > Len(items)
    THEN [ok |-> TRUE, start |-> start, end |-> pos - 1, caps |-> <<PyNone, PyNone>>]
    ELSE LET it == items[k]
             run == RunLen(it.cls, text, pos)
             most == IF it.hi >= 0 /\ it.hi < run THEN it.hi ELSE run
         IN TryCount(items, k, text, start, pos, most)

\* repetition count n for items[k], then fewer (greedy first)
TryCount(items, k, text, start, pos, n) ==
    LET it == items[k]
    IN IF n < it.lo
       THEN IF it.opt
            THEN MatchItems(items, k + 1, text, start, pos)
            ELSE NoMatch
       ELSE LET rest == MatchItems(items, k + 1, text, start, pos + n)
            IN IF rest.ok
               THEN [rest EXCEPT !.caps =
                        SetCap(@, it.grp, PyStr(SubSeq(text, pos, pos + n - 1)))]
               ELSE TryCount(items, k, text, start, pos, n - 1)

----------------------------------------------------------------------------
(* int(): the digit strings it accepts and the integer they denote *)

IsDigits(s) == Len(s) > 0 /\ \A j \in 1..Len(s) : s[j] \in DIGIT

DigitValue(t) ==
    CASE t = "0" -> 0 [] t = "1" -> 1 [] t = "2" -> 2 [] t = "4" -> 4
      [] t = "5" -> 5 [] t = "7" -> 7 [] t = "8" -> 8 [] OTHER -> 9

\* the base-10 integer a digit string denotes
RECURSIVE IntValue(_)
IntValue(s) ==
    IF Len(s) = 0 THEN 0
    ELSE 10 * IntValue(SubSeq(s, 1, Len(s) - 1)) + DigitValue(s[Len(s)])

\* int(v) raises ValueError for a str that is not a number
IntParsable(v) == v.kind = "int" \/ (v.kind = "str" /\ IsDigits(v.s))

PyIntOf(v) == IF v.kind = "int" THEN v.n ELSE IntValue(v.s)

----------------------------------------------------------------------------
(* KPIChecker.check_text *)

\* pattern.finditer(text), its first match: the leftmost start position at
\* which the pattern matches (an empty match may start at Len(text) + 1)
\* finditer taken from the right end: the last occurrence first
RECURSIVE SearchBack(_, _, _)
SearchBack(items, text, s) ==
    IF s < 1 THEN NoMatch
    ELSE LET m == MatchItems(items, 1, text, s, s)
         IN IF m.ok THEN m ELSE SearchBack(items, text, s - 1)

SearchFrom_Rightmost(items, text, s) == SearchBack(items, text, Len(text) + 1)

RECURSIVE SearchFrom(_, _, _)
SearchFrom(items, text, s) ==
    IF s > Len(text) + 1 THEN NoMatch
    ELSE LET m == MatchItems(items, 1, text, s, s)
         IN IF m.ok THEN m ELSE SearchFrom(items, text, s + 1)

FirstMatch(items, text) == SearchFrom(items, text, 1)

\* the verdict of lines 38-44 and 78-84
AbsentVerdict ==
    [exc |-> "none", has_kpi_statement |-> FALSE, score |-> PyNone,
     matching_pattern |-> "None", match_text |-> PyNone, year |-> PyNone]

\* check_text left by an exception: no verdict is returned
Raised(e) == [AbsentVerdict EXCEPT !.exc = e]

\* the verdict of lines 60-66 and 69-75
PresentVerdict(p, text, m, score, year) ==
    [exc |-> "none", has_kpi_statement |-> TRUE, score |-> score,
     matching_pattern |-> p, match_text |-> PyStr(SubSeq(text, m.start, m.end)),
     year |-> year]

\* the first group taken as the score whatever the position of the pattern
Extract_FirstGroup(p, i, items, text, m) ==
    IF NGroups(items) < 1 THEN Raised("IndexError")
    ELSE PresentVerdict(p, text, m, m.caps[1], PyNone)

\* which groups hold the score and the year: decided by the position i of
\* the pattern in the list (1-based here, "i == 0" in the source), lines 57-75.
\* match.group(g) of a group the pattern does not have raises IndexError.
Extract(p, i, items, text, m) ==
    IF i = 1
    THEN IF NGroups(items) < 2 THEN Raised("IndexError")
         ELSE PresentVerdict(p, text, m, m.caps[2], m.caps[1])
    ELSE IF NGroups(items) < 1 THEN Raised("IndexError")
         ELSE PresentVerdict(p, text, m, m.caps[1], PyNone)

\* the loop of lines 50-75 from list position i on
RECURSIVE CheckFrom(_, _, _)
CheckFrom(patterns, i, text) ==
    IF i > Len(patterns) THEN AbsentVerdict
    ELSE LET items == Compile(patterns[i])
             m == FirstMatch(items, text)
         IN IF m.ok
            THEN Extract(patterns[i], i, items, text, m)
            ELSE CheckFrom(patterns, i + 1, text)

\* line 47 compiles every pattern of the list before the first is tried
check_text(patterns, text) ==
    IF ~Truthy(text) \/ text.kind # "str"
    THEN AbsentVerdict
    ELSE IF \E i \in 1..Len(patterns) : patterns[i] \in Malformed
    THEN Raised("re.error")
    ELSE CheckFrom(patterns, 1, text.s)

----------------------------------------------------------------------------
(* KPIChecker.check_files and KPIChecker.analyze_results *)

\* check_files, lines 96-101: one check_text call per document
CheckAll(patterns, contents) ==
    [i \in 1..Len(contents) |-> check_text(patterns, contents[i])]

\* line 114
RECURSIVE CountWithKpi(_, _)
CountWithKpi(results, i) ==
    IF i > Len(results) THEN 0
    ELSE (IF results[i].has_kpi_statement THEN 1 ELSE 0) + CountWithKpi(results, i + 1)

\* one more document with score k in the distribution, lines 123-126
Bump(dist, k) ==
    IF k \in DOMAIN dist
    THEN [dist EXCEPT ![k] = @ + 1]
    ELSE [j \in DOMAIN dist \cup {k} |-> IF j = k THEN 1 ELSE dist[j]]

\* the loop of lines 119-126
RECURSIVE Distribution(_, _, _)
Distribution(results, i, dist) ==
    IF i > Len(results) THEN dist
    ELSE IF Truthy(results[i].score)
         THEN Distribution(results, i + 1, Bump(dist, PyIntOf(results[i].score)))
         ELSE Distribution(results, i + 1, dist)

\* line 129
RECURSIVE TotalScore(_, _)
TotalScore(results, i) ==
    IF i > Len(results) THEN 0
    ELSE (IF Truthy(results[i].score) THEN PyIntOf(results[i].score) ELSE 0)
         + TotalScore(results, i + 1)

\* round(total / n, 2), in hundredths.  A tie (the third decimal exactly 5)
\* takes 8 or more documents; round() then goes by the binary value of the
\* quotient, to the even neighbour when the quotient is exact.
Round2(total, n) ==
    LET q == (100 * total) \div n
        r == (100 * total) % n
    IN IF 2 * r > n \/ (2 * r = n /\ q % 2 = 1) THEN q + 1 ELSE q

NoAnalysis ==
    [exc |-> "none", total_files |-> 0, files_with_kpi |-> 0, files_without_kpi |-> 0,
     score_distribution |-> <<>>, average_score |-> 0]

\* analyze_results, lines 113-138; int() of a score that is no number
\* raises ValueError
analyze_results(results) ==
    IF \E i \in 1..Len(results) :
          Truthy(results[i].score) /\ ~IntParsable(results[i].score)
    THEN [NoAnalysis EXCEPT !.exc = "ValueError"]
    ELSE LET with == CountWithKpi(results, 1)
         IN [exc |-> "none",
             total_files |-> Len(results),
             files_with_kpi |-> with,
             files_without_kpi |-> Len(results) - with,
             score_distribution |-> Distribution(results, 1, <<>>),
             average_score |->
                 IF with > 0 THEN Round2(TotalScore(results, 1), with) ELSE 0]

----------------------------------------------------------------------------
(* DocxParser.parse_file.  A file is missing, a .docx with its paragraphs, *)
(* or something python-docx cannot open ("junk": not a .docx; "torn": a    *)
(* save that broke off).                                                   *)

\* Config.default_config["check_last_paragraphs"], DocxParser's default
DefaultLastParagraphs == 10

MissingFile == [st |-> "missing", paras |-> <<>>]
Docx(paras) == [st |-> "ok", paras |-> paras]
JunkFile == [st |-> "junk", paras |-> <<>>]
TornFile == [st |-> "torn", paras |-> <<>>]

\* str.strip()
RECURSIVE LStrip(_)
LStrip(s) == IF Len(s) > 0 /\ Head(s) \in SPACE THEN LStrip(Tail(s)) ELSE s
RECURSIVE RStrip(_)
RStrip(s) ==
    IF Len(s) > 0 /\ s[Len(s)] \in SPACE THEN RStrip(SubSeq(s, 1, Len(s) - 1)) ELSE s
Strip(s) == RStrip(LStrip(s))

\* line 43: the stripped paragraphs that are not empty
RECURSIVE NonEmptyParagraphs(_)
NonEmptyParagraphs(ps) ==
    IF ps = <<>> THEN <<>>
    ELSE LET head == Strip(Head(ps))
         IN (IF head # <<>> THEN <<head>> ELSE <<>>) \o NonEmptyParagraphs(Tail(ps))

Min(a, b) == IF a < b THEN a ELSE b
Max(a, b) == IF a > b THEN a ELSE b

\* the slice seq[k:] of Python: a negative k counts from the end
SliceFrom(seq, k) ==
    LET from == IF k < 0 THEN Max(Len(seq) + k, 0) ELSE Min(k, Len(seq))
    IN SubSeq(seq, from + 1, Len(seq))

\* the slice taking exactly the trailing n elements, none for n <= 0
LastParagraphs_Trailing(paragraphs, n) ==
    LET last_n == Max(Min(n, Len(paragraphs)), 0)
    IN SubSeq(paragraphs, Len(paragraphs) - last_n + 1, Len(paragraphs))

\* lines 54-55
LastParagraphs(paragraphs, n) ==
    LET last_n == Min(n, Len(paragraphs))
    IN IF paragraphs # <<>> THEN SliceFrom(paragraphs, -last_n) ELSE <<>>

\* '\n'.join(list)
RECURSIVE Join(_)
Join(list) ==
    IF list = <<>> THEN <<>>
    ELSE IF Len(list) = 1 THEN Head(list)
    ELSE Head(list) \o <<"nl">> \o Join(Tail(list))

ParseError ==
    [error |-> TRUE, total_paragraphs |-> 0, last_paragraphs |-> <<>>,
     last_paragraphs_text |-> <<>>]

\* parse_file of a parser built with last_paragraphs = n, lines 36-63
parse_file(file, n) ==
    IF file.st # "ok" THEN ParseError
    ELSE LET paragraphs == NonEmptyParagraphs(file.paras)
             last == LastParagraphs(paragraphs, n)
         IN [error |-> FALSE, total_paragraphs |-> Len(paragraphs),
             last_paragraphs |-> last, last_paragraphs_text |-> Join(last)]

----------------------------------------------------------------------------
(* FileFixer *)

\* Config.get_current_year_quarter: the years and quarters a run may fall in
Years == {<<"2", "0", "2", "4">>, <<"2", "0", "2", "5">>}

\* a template whose blank is filled in with a score
TemplateText_Filled(year, quarter) ==
    year \o <<"nian", "di", quarter, "jidu", "KPI", "khzp", "8", "5", "fen", "dot">>

\* "{year}年第{quarter}季度KPI考核自评__分。".format(year, quarter),
\* file_fixer.py lines 57-60 with the template of config.py line 48
TemplateText(year, quarter) ==
    year \o <<"nian", "di", quarter, "jidu", "KPI", "khzp", "us", "us", "fen", "dot">>

\* shutil.copy2(src, dst) as it ends: done, refused before writing, or
\* broken off while writing
CopyOutcomes == {"ok", "denied", "torn"}
\* doc.save(file_path) likewise
SaveOutcomes == {"ok", "denied", "torn"}

\* the destination file after a copy of src that ended as o
Copied(src, dst, o) ==
    CASE o = "ok"     -> src
      [] o = "denied" -> dst
      [] OTHER        -> TornFile

\* line 63 and 66: the file after doc.add_paragraph(t); doc.save() ending as o
Saved(file, t, o) ==
    CASE o = "ok"     -> Docx(Append(file.paras, t))
      [] o = "denied" -> file
      [] OTHER        -> TornFile

\* fix_file going on to the document whatever became of the backup
AfterCopy_KeepGoing(o) == "open"

\* where fix_file goes after shutil.copy2, line 48: on to Document(), line
\* 51, or to the handler of line 76 when the copy raised
AfterCopy(o) == IF o = "ok" THEN "open" ELSE "returned"

\* fix_file(file_path, create_backup), lines 41-77: the document and its
\* backup afterwards, and the 'success' of the returned dictionary
fix_file(file, bak, create_backup, t, copy, save) ==
    IF file.st = "missing"
    THEN [file |-> file, bak |-> bak, success |-> FALSE]
    ELSE LET bak1 == IF create_backup THEN Copied(file, bak, copy) ELSE bak
         IN IF create_backup /\ AfterCopy(copy) = "returned"
            THEN [file |-> file, bak |-> bak1, success |-> FALSE]
            ELSE IF file.st # "ok"
            THEN [file |-> file, bak |-> bak1, success |-> FALSE]
            ELSE [file |-> Saved(file, t, save), bak |-> bak1, success |-> save = "ok"]

\* restore_from_backup that restores by moving the backup
restore_from_backup_Move(file, bak, copy) ==
    IF bak.st = "missing"
    THEN [file |-> file, bak |-> bak, success |-> FALSE]
    ELSE [file |-> Copied(bak, file, copy), bak |-> MissingFile, success |-> copy = "ok"]

\* restore_from_backup(file_path), lines 137-146
restore_from_backup(file, bak, copy) ==
    IF bak.st = "missing"
    THEN [file |-> file, bak |-> bak, success |-> FALSE]
    ELSE [file |-> Copied(bak, file, copy), bak |-> bak, success |-> copy = "ok"]

\* generate_fix_preview(file_path), lines 107-125: 'success'
generate_fix_preview(file) == file.st # "missing"

----------------------------------------------------------------------------
(* Inputs *)

\* "2024年第四季度KPI考核自评85分"
FragA == <<"2", "0", "2", "4", "nian", "di", "si", "jidu", "KPI", "khzp", "8", "5", "fen">>
\* "KPI 自评得分 7 分"
FragC == <<"KPI", "sp", "zpdf", "sp", "7", "sp", "fen">>
\* "KPI考核自评82分"
FragE == <<"KPI", "khzp", "8", "2", "fen">>
\* "KPI考核自评7分"
FragE7 == <<"KPI", "khzp", "7", "fen">>
\* "2024年KPI85分"
FragY == <<"2", "0", "2", "4", "nian", "KPI", "8", "5", "fen">>
\* "KPIx分"
FragN == <<"KPI", "x", "fen">>

Fragments ==
    {FragA, FragC, FragE, FragE7, FragY, FragN,
     <<"KPI">>, <<"fen">>, <<"jidu">>, <<"5">>, <<"x">>}

RECURSIVE TextsOf(_)
TextsOf(n) ==
    IF n = 0 THEN {<<>>}
    ELSE LET shorter == TextsOf(n - 1)
         IN shorter \cup {t \o f : t \in shorter, f \in Fragments}

Texts == TextsOf(MaxFrags)

\* what a caller may hand to check_text: a str, None or a non-str
TextInputs == {PyStr(t) : t \in Texts} \cup {PyNone, PyInt(5)}

\* the default Pattern Set, Config.__init__
DefaultPatterns == <<"P0", "P1", "P2", "P3", "P4">>

\* patterns handed to add_kpi_pattern
AddPool == {"PY", "PE", "P4"}

\* lists a configuration file or Config.set supplies for "kpi_patterns"
UserLists == { <<"P4">>, <<"P2", "P0", "P4", "PN", "PO">> }

\* a configuration file: unreadable or not JSON; JSON without the key
\* "kpi_patterns"; JSON with it
UserConfigs ==
    {[ok |-> FALSE, has_patterns |-> FALSE, kpi_patterns |-> <<>>],
     [ok |-> TRUE, has_patterns |-> FALSE, kpi_patterns |-> <<>>]}
    \cup {[ok |-> TRUE, has_patterns |-> TRUE, kpi_patterns |-> l] : l \in UserLists}

\* Pattern Sets of a run of the pipeline: the defaults, the defaults after
\* add_kpi_pattern("PE"), and the lists of a configuration file
BatchPatternSets == {DefaultPatterns, Append(DefaultPatterns, "PE")} \cup UserLists

\* texts the document text provider yields
BatchTexts ==
    {PyStr(FragA), PyStr(FragE), PyStr(FragE7), PyStr(FragN),
     PyStr(<<"KPI", "fen">>), PyStr(<<"x">>), PyStr(<<>>)}

\* a verdict dictionary built by a caller
Verdict(has, score) ==
    [exc |-> "none", has_kpi_statement |-> has, score |-> score,
     matching_pattern |-> IF has THEN "P4" ELSE "None",
     match_text |-> IF has THEN PyStr(FragE) ELSE PyNone, year |-> PyNone]

HandVerdicts ==
    {Verdict(TRUE, PyStr(<<"8", "0">>)), Verdict(TRUE, PyStr(<<"9", "0">>)),
     Verdict(TRUE, PyStr(<<"1", "0", "0">>)), Verdict(TRUE, PyStr(<<"1", "2", "0">>)),
     Verdict(FALSE, PyNone), Verdict(TRUE, PyNone), Verdict(TRUE, PyStr(<<>>)),
     Verdict(TRUE, PyInt(0)), Verdict(TRUE, PyStr(<<"x">>))}

----------------------------------------------------------------------------
(* State *)

VARIABLES
    config_patterns,    \* Config.config["kpi_patterns"]
    checker_patterns,   \* KPIChecker.patterns
    aliased,            \* KPIChecker.patterns is the list object of the Config
    pc,                 \* the caller: "idle", or "returned" from check_text
    text,               \* argument of the check_text call
    result,             \* what the call returned or raised
    base_patterns,      \* the list when "kpi_patterns" was last bound
    add_log,            \* arguments of the add_kpi_pattern calls since then
    bpc,                \* the batch: "collect", "checked", "analyzed", "crashed"
    file_contents,      \* main's file_contents, in insertion order
    results,            \* the verdict map, in insertion order
    analysis,           \* what analyze_results returned or raised
    rpc,                \* main from line 197 on: the step it is at
    fmt_arg,            \* args.format ("None": not given)
    default_format,     \* ReportGenerator.report_format
    pandas_available,   \* report_generator.pandas_available
    openpyxl_available, \* report_generator.openpyxl_available
    attempt,            \* 1: main's call at line 200, 2: its call at line 213
    excel_state,        \* the spreadsheet report: "none", "unavailable",
                        \* "build_failed", "write_failed", "written"
    txt_state,          \* the text report: "none", "failed", "written"
    exit_code,          \* main's return value, -1 while it runs
    files,              \* the documents, by number: what each path holds
    baks,               \* what each <path>.bak holds
    files0,             \* the documents as they were when the run began
    now,                \* year and quarter of datetime.now()
    cfg_file,           \* the file named by --config
    args,               \* the parsed command line
    mpc,                \* main: the step it is at
    di,                 \* position of the loop over documents
    file_keys,          \* the keys of file_contents, in insertion order
    doc_errors,         \* documents whose error main printed
    files_to_fix,       \* main's files_to_fix
    fix_results,        \* what fix_file returned, per call
    fixed_json,         \* the list written to fixed_files.json
    crash,              \* the exception that left main, "none" if none did
    left_at,            \* the step at which main was left
    runs,               \* runs of main made over the directory so far
    fpc,                \* a fix_file call: the step it is at
    fx_backup,          \* its create_backup
    fx_pre,             \* the document before the latest backup-enabled fix_file
    fx_copied,          \* that call's copy to <path>.bak was made
    fx_ret,             \* the latest call of fix_file or restore_from_backup: the
                        \* document before it, and the 'success' it returned
    last_n,             \* DocxParser.last_paragraphs
    parsed              \* what parse_file returned

cfgVars == <<config_patterns, checker_patterns, aliased>>
callVars == <<pc, text, result>>
logVars == <<base_patterns, add_log>>
batchVars == <<bpc, file_contents, results, analysis>>
envVars == <<fmt_arg, default_format, pandas_available, openpyxl_available>>
reportVars == <<rpc, envVars, attempt, excel_state, txt_state, exit_code>>
fsVars == <<files, baks, files0, now>>
mainVars == <<cfg_file, args, mpc, di, file_keys, doc_errors, files_to_fix,
              fix_results, fixed_json, crash, left_at, runs>>
fixerVars == <<fpc, fx_backup, fx_pre, fx_copied, fx_ret>>
parserVars == <<last_n, parsed>>
runVars == <<fsVars, mainVars, fixerVars, parserVars>>
vars == <<cfgVars, callVars, logVars, batchVars, reportVars, runVars>>

Range(seq) == {seq[i] : i \in 1..Len(seq)}

\* add_kpi_pattern that appends without looking for the pattern
AddPattern_NoLookup(list, pattern) == Append(list, pattern)

\* the list after add_kpi_pattern(pattern), lines 135-136
AddPattern(list, pattern) ==
    IF pattern \notin Range(list) THEN Append(list, pattern) ELSE list

\* Config(): the defaults; KPIChecker(config) holds the Config's list
InitConfig ==
    /\ config_patterns = DefaultPatterns
    /\ checker_patterns = DefaultPatterns
    /\ aliased = TRUE

InitCall ==
    /\ pc = "idle"
    /\ text = PyNone
    /\ result = AbsentVerdict

InitLog ==
    /\ base_patterns = DefaultPatterns
    /\ add_log = <<>>

InitBatchVars ==
    /\ bpc = "collect"
    /\ file_contents = <<>>
    /\ results = <<>>
    /\ analysis = NoAnalysis

\* the defaults of Config.__init__ and of parse_arguments, all libraries there
InitReportVars ==
    /\ rpc = "report"
    /\ fmt_arg = "None"
    /\ default_format = "excel"
    /\ pandas_available = TRUE
    /\ openpyxl_available = TRUE
    /\ attempt = 1
    /\ excel_state = "none"
    /\ txt_state = "none"
    /\ exit_code = -1

NoArgs ==
    [check_deps |-> FALSE, version |-> FALSE, fix_list |-> "none", fix |-> FALSE,
     fix_preview |-> FALSE, no_backup |-> FALSE]

NoConfigFile == [err |-> "none", has_patterns |-> FALSE, kpi_patterns |-> <<>>]

NoReturn == [op |-> "none", success |-> FALSE, before |-> MissingFile]

NoParse == [done |-> FALSE, result |-> ParseError]

InitFsVars ==
    /\ files = <<>>
    /\ baks = <<>>
    /\ files0 = <<>>
    /\ now = [year |-> <<"2", "0", "2", "4">>, quarter |-> "si"]

InitMainVars ==
    /\ cfg_file = NoConfigFile
    /\ args = NoArgs
    /\ mpc = "start"
    /\ di = 1
    /\ file_keys = <<>>
    /\ doc_errors = {}
    /\ files_to_fix = <<>>
    /\ fix_results = <<>>
    /\ fixed_json = [written |-> FALSE, list |-> <<>>]
    /\ crash = "none"
    /\ left_at = "none"
    /\ runs = 0

InitFixerVars ==
    /\ fpc = "idle"
    /\ fx_backup = TRUE
    /\ fx_pre = MissingFile
    /\ fx_copied = FALSE
    /\ fx_ret = NoReturn

InitParserVars ==
    /\ last_n = DefaultLastParagraphs
    /\ parsed = NoParse

InitRunVars == InitFsVars /\ InitMainVars /\ InitFixerVars /\ InitParserVars

\* Config.add_kpi_pattern(pattern): appends in place, so a checker that
\* holds this list object sees the new entry
add_kpi_pattern(pattern) ==
    /\ pc = "idle"
    /\ config_patterns' = AddPattern(config_patterns, pattern)
    /\ checker_patterns' = IF aliased THEN config_patterns' ELSE checker_patterns
    /\ UNCHANGED <<aliased, callVars>>

\* Config.set("kpi_patterns", value): binds the key to a new list object
set_kpi_patterns(value) ==
    /\ pc = "idle"
    /\ config_patterns' = value
    /\ aliased' = FALSE
    /\ UNCHANGED <<checker_patterns, callVars>>

\* whether load_config binds "kpi_patterns" anew: the file is read and
\* parsed, and has the key (lines 70-74; a list is not a dict)
Rebinds(user_config) == user_config.ok /\ user_config.has_patterns

\* Config.load_config(config_file), lines 65-77
load_config(user_config) ==
    /\ pc = "idle"
    /\ IF Rebinds(user_config)
       THEN /\ config_patterns' = user_config.kpi_patterns
            /\ aliased' = FALSE
       ELSE UNCHANGED <<config_patterns, aliased>>
    /\ UNCHANGED <<checker_patterns, callVars>>

\* KPIChecker(config), lines 24-25
KPIChecker_init ==
    /\ pc = "idle"
    /\ checker_patterns' = config_patterns
    /\ aliased' = TRUE
    /\ UNCHANGED <<config_patterns, callVars>>

\* a call of KPIChecker.check_text
CheckText(t) ==
    /\ pc = "idle"
    /\ pc' = "returned"
    /\ text' = t
    /\ result' = check_text(checker_patterns, t)
    /\ UNCHANGED cfgVars

\* the caller is done with the verdict
Consume ==
    /\ pc = "returned"
    /\ pc' = "idle"
    /\ text' = PyNone
    /\ result' = AbsentVerdict
    /\ UNCHANGED cfgVars

(* Spec: configuration and classification *)

Init == InitConfig /\ InitCall /\ InitLog /\ InitBatchVars /\ InitReportVars /\ InitRunVars

Next ==
    \/ \E p \in AddPool : add_kpi_pattern(p) /\ UNCHANGED <<logVars, batchVars, reportVars, runVars>>
    \/ \E l \in UserLists : set_kpi_patterns(l) /\ UNCHANGED <<logVars, batchVars, reportVars, runVars>>
    \/ \E u \in UserConfigs : load_config(u) /\ UNCHANGED <<logVars, batchVars, reportVars, runVars>>
    \/ KPIChecker_init /\ UNCHANGED <<logVars, batchVars, reportVars, runVars>>
    \/ \E t \in TextInputs : CheckText(t) /\ UNCHANGED <<logVars, batchVars, reportVars, runVars>>
    \/ Consume /\ UNCHANGED <<logVars, batchVars, reportVars, runVars>>

Spec == Init /\ [][Next]_vars

(* SpecConfig: the configuration calls alone, with the record of the      *)
(* add_kpi_pattern calls made since "kpi_patterns" was last bound          *)

LoggedAdd(p) ==
    /\ Len(add_log) < MaxCalls
    /\ add_kpi_pattern(p)
    /\ add_log' = Append(add_log, p)
    /\ UNCHANGED base_patterns

LoggedSet(l) ==
    /\ set_kpi_patterns(l)
    /\ base_patterns' = l
    /\ add_log' = <<>>

LoggedLoad(u) ==
    /\ load_config(u)
    /\ IF Rebinds(u)
       THEN base_patterns' = u.kpi_patterns /\ add_log' = <<>>
       ELSE UNCHANGED logVars

LoggedNewChecker ==
    /\ KPIChecker_init
    /\ UNCHANGED logVars

NextConfig ==
    \/ \E p \in AddPool : LoggedAdd(p) /\ UNCHANGED <<batchVars, reportVars, runVars>>
    \/ \E l \in UserLists : LoggedSet(l) /\ UNCHANGED <<batchVars, reportVars, runVars>>
    \/ \E u \in UserConfigs : LoggedLoad(u) /\ UNCHANGED <<batchVars, reportVars, runVars>>
    \/ LoggedNewChecker /\ UNCHANGED <<batchVars, reportVars, runVars>>

SpecConfig == Init /\ [][NextConfig]_vars

(* SpecBatch: a batch of documents classified and summarized, main lines  *)
(* 167-188, or a verdict map built by another caller and summarized        *)

InitBatch ==
    /\ config_patterns \in BatchPatternSets
    /\ checker_patterns = config_patterns
    /\ aliased = TRUE
    /\ InitCall /\ InitLog /\ InitBatchVars /\ InitReportVars /\ InitRunVars

\* main, lines 170-181: the text of one more document is collected
extract_text(t) ==
    /\ bpc = "collect" /\ results = <<>>
    /\ Len(file_contents) < MaxFiles
    /\ file_contents' = Append(file_contents, t)
    /\ UNCHANGED <<bpc, results, analysis>>

\* main, line 185; an exception of check_text leaves main
check_files ==
    /\ bpc = "collect" /\ results = <<>>
    /\ LET checked == CheckAll(checker_patterns, file_contents)
       IN IF \E i \in 1..Len(checked) : checked[i].exc # "none"
          THEN bpc' = "crashed" /\ UNCHANGED results
          ELSE bpc' = "checked" /\ results' = checked
    /\ UNCHANGED <<file_contents, analysis>>

\* a caller other than main puts one more verdict into a map of its own
put_verdict(v) ==
    /\ bpc = "collect" /\ file_contents = <<>>
    /\ Len(results) < MaxFiles
    /\ results' = Append(results, v)
    /\ UNCHANGED <<bpc, file_contents, analysis>>

\* main, line 188, or the other caller's call; an exception leaves the caller
analyze ==
    /\ bpc = "checked" \/ (bpc = "collect" /\ file_contents = <<>>)
    /\ analysis' = analyze_results(results)
    /\ bpc' = IF analysis'.exc = "none" THEN "analyzed" ELSE "crashed"
    /\ UNCHANGED <<file_contents, results>>

NextBatch ==
    \/ \E t \in BatchTexts : extract_text(t) /\ UNCHANGED <<cfgVars, callVars, logVars, reportVars, runVars>>
    \/ check_files /\ UNCHANGED <<cfgVars, callVars, logVars, reportVars, runVars>>
    \/ \E v \in HandVerdicts : put_verdict(v) /\ UNCHANGED <<cfgVars, callVars, logVars, reportVars, runVars>>
    \/ analyze /\ UNCHANGED <<cfgVars, callVars, logVars, reportVars, runVars>>

SpecBatch == InitBatch /\ [][NextBatch]_vars

(* SpecReport: main from line 197 to its return, in a run without --fix   *)
(* and --fix-preview, with ReportGenerator.generate_report.  Building the  *)
(* spreadsheet's data, writing the spreadsheet and writing the text file   *)
(* each succeed or raise.                                                  *)

Formats == {"console", "txt", "excel"}

InitReport ==
    /\ InitConfig /\ InitCall /\ InitLog /\ InitBatchVars /\ InitRunVars
    /\ rpc = "report"
    /\ fmt_arg \in Formats \cup {"None"}
    /\ default_format \in Formats \cup {"pdf"}
    /\ pandas_available \in BOOLEAN
    /\ openpyxl_available \in BOOLEAN
    /\ attempt = 1
    /\ excel_state = "none"
    /\ txt_state = "none"
    /\ exit_code = -1

\* main's handler gives up at once
OnReportException_NoRetry(n) == "fatal"

\* where an exception of generate_report takes main: to the retry of
\* lines 211-219 from the call of line 200, to "return 1" from the retry
OnReportException(n) == IF n = 1 THEN "fallback" ELSE "fatal"

\* report_generator.py line 63
FormatToUse(arg, default) == IF arg # "None" THEN arg ELSE default

\* lines 66-68
DepsMissing == ~pandas_available \/ ~openpyxl_available

\* the branch of lines 70-78 for format f
Dispatch(f, n) ==
    CASE f = "console" -> "rest"
      [] f = "txt"     -> "txt_write"
      [] f = "excel"   -> "excel_build"
      [] OTHER         -> OnReportException(n)

\* main line 200: generate_report(results, file_data, args.output, args.format)
report_call ==
    /\ rpc = "report"
    /\ LET f == FormatToUse(fmt_arg, default_format)
       IN IF f = "excel" /\ DepsMissing
          THEN excel_state' = "unavailable" /\ rpc' = Dispatch("txt", attempt)
          ELSE UNCHANGED excel_state /\ rpc' = Dispatch(f, attempt)
    /\ UNCHANGED <<envVars, attempt, txt_state, exit_code>>

\* _generate_excel_report lines 190-211, outside its try
excel_build(ok) ==
    /\ rpc = "excel_build"
    /\ IF ok
       THEN rpc' = "excel_write" /\ UNCHANGED excel_state
       ELSE rpc' = OnReportException(attempt) /\ excel_state' = "build_failed"
    /\ UNCHANGED <<envVars, attempt, txt_state, exit_code>>

\* _generate_excel_report lines 213-255: the handler turns to the text report
excel_write(ok) ==
    /\ rpc = "excel_write"
    /\ IF ok
       THEN rpc' = "rest" /\ excel_state' = "written"
       ELSE rpc' = "txt_write" /\ excel_state' = "write_failed"
    /\ UNCHANGED <<envVars, attempt, txt_state, exit_code>>

\* _generate_txt_report lines 160-170
txt_write(ok) ==
    /\ rpc = "txt_write"
    /\ IF ok
       THEN rpc' = "rest" /\ txt_state' = "written"
       ELSE rpc' = OnReportException(attempt) /\ txt_state' = "failed"
    /\ UNCHANGED <<envVars, attempt, excel_state, exit_code>>

\* main lines 209-218: generate_report(..., 'txt')
main_fallback ==
    /\ rpc = "fallback"
    /\ attempt' = 2
    /\ rpc' = Dispatch("txt", 2)
    /\ UNCHANGED <<envVars, excel_state, txt_state, exit_code>>

\* main lines 220-222
main_fatal ==
    /\ rpc = "fatal"
    /\ rpc' = "exit"
    /\ exit_code' = 1
    /\ UNCHANGED <<envVars, attempt, excel_state, txt_state>>

\* main lines 224-264 with args.fix and args.fix_preview false
main_return ==
    /\ rpc = "rest"
    /\ rpc' = "exit"
    /\ exit_code' = 0
    /\ UNCHANGED <<envVars, attempt, excel_state, txt_state>>

NextReport ==
    \/ report_call /\ UNCHANGED <<cfgVars, callVars, logVars, batchVars, runVars>>
    \/ \E ok \in BOOLEAN : excel_build(ok) /\ UNCHANGED <<cfgVars, callVars, logVars, batchVars, runVars>>
    \/ \E ok \in BOOLEAN : excel_write(ok) /\ UNCHANGED <<cfgVars, callVars, logVars, batchVars, runVars>>
    \/ \E ok \in BOOLEAN : txt_write(ok) /\ UNCHANGED <<cfgVars, callVars, logVars, batchVars, runVars>>
    \/ main_fallback /\ UNCHANGED <<cfgVars, callVars, logVars, batchVars, runVars>>
    \/ main_fatal /\ UNCHANGED <<cfgVars, callVars, logVars, batchVars, runVars>>
    \/ main_return /\ UNCHANGED <<cfgVars, callVars, logVars, batchVars, runVars>>

SpecReport == InitReport /\ [][NextReport]_vars

(* SpecMain: one run of main, lines 98-264, over a directory of           *)
(* documents.  The report phase is one step that ends with a report        *)
(* written or with "return 1" (SpecReport has its detail).                 *)

\* documents in the scanned directory
MaxDocs == 2

\* what a path ending in .docx may hold; a dangling link is listed by the
\* scan and missing when opened
DocFiles == {Docx(<<FragE>>), Docx(<< <<"x">> >>), JunkFile, MissingFile}

Directories == UNION {[1..n -> DocFiles] : n \in 0..MaxDocs}

\* the file named by --config: none; unreadable (IOError) or not JSON
\* (JSONDecodeError); not UTF-8 (UnicodeDecodeError); a list with a
\* {score} pattern first; a list with a malformed pattern
MainConfigs ==
    {NoConfigFile,
     [err |-> "IOError", has_patterns |-> FALSE, kpi_patterns |-> <<>>],
     [err |-> "JSONDecodeError", has_patterns |-> FALSE, kpi_patterns |-> <<>>],
     [err |-> "UnicodeDecodeError", has_patterns |-> FALSE, kpi_patterns |-> <<>>],
     [err |-> "none", has_patterns |-> TRUE, kpi_patterns |-> <<"P4">>],
     [err |-> "none", has_patterns |-> TRUE, kpi_patterns |-> Append(DefaultPatterns, "PBAD")]}

\* the file named by --fix-list: not given, missing, not JSON, JSON that
\* is no array, or an array naming every document of the directory
FixLists == {"none", "missing", "badjson", "notarray", "ok"}

ArgSets ==
    [check_deps : BOOLEAN, version : BOOLEAN, fix_list : FixLists, fix : BOOLEAN,
     fix_preview : BOOLEAN, no_backup : BOOLEAN]

RunMoments ==
    {[year |-> <<"2", "0", "2", "4">>, quarter |-> "si"],
     [year |-> <<"2", "0", "2", "5">>, quarter |-> "yi"]}

\* the exceptions load_config catches, config.py line 76
Caught(err) == err \in {"IOError", "JSONDecodeError"}

\* Config(config_file), config.py lines 52-56: "kpi_patterns" afterwards
ConfiguredPatterns(f) ==
    IF f.err = "none" /\ f.has_patterns THEN f.kpi_patterns ELSE DefaultPatterns

InitMain ==
    /\ InitConfig /\ InitCall /\ InitLog /\ InitBatchVars
    /\ InitFixerVars /\ InitParserVars
    /\ rpc = "report"
    /\ fmt_arg = "None"
    /\ default_format = "excel"
    /\ openpyxl_available = TRUE
    /\ attempt = 1
    /\ excel_state = "none"
    /\ txt_state = "none"
    /\ exit_code = -1
    /\ files \in Directories
    /\ baks = [d \in DOMAIN files |-> MissingFile]
    /\ files0 = files
    /\ now \in RunMoments
    /\ cfg_file \in MainConfigs
    /\ pandas_available \in BOOLEAN
    /\ args = NoArgs
    /\ mpc = "start"
    /\ di = 1
    /\ file_keys = <<>>
    /\ doc_errors = {}
    /\ files_to_fix = <<>>
    /\ fix_results = <<>>
    /\ fixed_json = [written |-> FALSE, list |-> <<>>]
    /\ crash = "none"
    /\ left_at = "none"
    /\ runs = 0

\* never changed by a run of main
mainFrame ==
    <<callVars, logVars, bpc, rpc, envVars, attempt, excel_state, txt_state,
      files0, now, cfg_file, runs, fixerVars, parserVars>>

\* main returns code, or is left by exception e (the interpreter then
\* exits with status 1)
Leave(code, e) ==
    /\ mpc' = "exit"
    /\ exit_code' = code
    /\ crash' = e
    /\ left_at' = mpc

\* the documents 1..n in directory order
RECURSIVE Listing(_)
Listing(n) == IF n = 0 THEN <<>> ELSE Append(Listing(n - 1), n)

\* lines 100-129: the command line, --check-deps, --version, Config and
\* the tools
m_start(a) ==
    /\ mpc = "start"
    /\ args' = a
    /\ IF a.check_deps
       THEN /\ Leave(IF pandas_available /\ openpyxl_available THEN 0 ELSE 1, "none")
            /\ UNCHANGED cfgVars
       ELSE IF a.version
       THEN Leave(0, "none") /\ UNCHANGED cfgVars
       ELSE IF cfg_file.err # "none" /\ ~Caught(cfg_file.err)
       THEN Leave(1, cfg_file.err) /\ UNCHANGED cfgVars
       ELSE /\ config_patterns' = ConfiguredPatterns(cfg_file)
            /\ checker_patterns' = config_patterns'
            /\ aliased' = TRUE
            /\ mpc' = IF a.fix_list # "none" THEN "fixlist" ELSE "scan"
            /\ UNCHANGED <<exit_code, crash, left_at>>
    /\ UNCHANGED <<file_contents, results, analysis, files, baks, di, file_keys,
                   doc_errors, files_to_fix, fix_results, fixed_json, mainFrame>>

\* lines 132-141 and 150-152: the fix list is read
m_fixlist ==
    /\ mpc = "fixlist"
    /\ IF args.fix_list = "ok"
       THEN /\ files_to_fix' = Listing(Len(files))
            /\ di' = 1
            /\ mpc' = "fixing"
            /\ UNCHANGED <<exit_code, crash, left_at>>
       ELSE Leave(1, "none") /\ UNCHANGED <<files_to_fix, di>>
    /\ UNCHANGED <<cfgVars, file_contents, results, analysis, files, baks, args,
                   file_keys, doc_errors, fix_results, fixed_json, mainFrame>>

\* lines 156-162: the directory is scanned
m_scan ==
    /\ mpc = "scan"
    /\ IF Len(files) = 0
       THEN Leave(0, "none") /\ UNCHANGED di
       ELSE mpc' = "extract" /\ di' = 1 /\ UNCHANGED <<exit_code, crash, left_at>>
    /\ UNCHANGED <<cfgVars, file_contents, results, analysis, files, baks, args,
                   file_keys, doc_errors, files_to_fix, fix_results, fixed_json,
                   mainFrame>>

\* the loop of lines 170-181 left by the first document that fails
m_extract_Abort ==
    /\ mpc = "extract" /\ di <= Len(files)
    /\ LET doc_info == parse_file(files[di], DefaultLastParagraphs)
       IN IF doc_info.error
          THEN /\ doc_errors' = doc_errors \cup {di}
               /\ Leave(1, "none")
               /\ UNCHANGED <<file_keys, file_contents>>
          ELSE /\ file_keys' = Append(file_keys, di)
               /\ file_contents' = Append(file_contents, PyStr(doc_info.last_paragraphs_text))
               /\ UNCHANGED <<doc_errors, mpc, exit_code, crash, left_at>>
    /\ di' = di + 1
    /\ UNCHANGED <<cfgVars, results, analysis, files, baks, args,
                   files_to_fix, fix_results, fixed_json, mainFrame>>

\* lines 170-181, one turn of the loop: extract_kpi_section of one document
m_extract ==
    /\ mpc = "extract" /\ di <= Len(files)
    /\ LET doc_info == parse_file(files[di], DefaultLastParagraphs)
       IN IF doc_info.error
          THEN /\ doc_errors' = doc_errors \cup {di}
               /\ UNCHANGED <<file_keys, file_contents>>
          ELSE /\ file_keys' = Append(file_keys, di)
               /\ file_contents' = Append(file_contents, PyStr(doc_info.last_paragraphs_text))
               /\ UNCHANGED doc_errors
    /\ di' = di + 1
    /\ UNCHANGED <<cfgVars, results, analysis, exit_code, files, baks, args, mpc,
                   files_to_fix, fix_results, fixed_json, crash, left_at, mainFrame>>

\* line 185: check_files; an exception of check_text leaves main
m_check ==
    /\ mpc = "extract" /\ di > Len(files)
    /\ LET checked == CheckAll(checker_patterns, file_contents)
           failed == {i \in 1..Len(checked) : checked[i].exc # "none"}
       IN IF failed # {}
          THEN /\ Leave(1, checked[CHOOSE i \in failed : \A j \in failed : i <= j].exc)
               /\ UNCHANGED results
          ELSE /\ results' = checked
               /\ mpc' = "analyze"
               /\ UNCHANGED <<exit_code, crash, left_at>>
    /\ UNCHANGED <<cfgVars, file_contents, analysis, files, baks, args, di, file_keys,
                   doc_errors, files_to_fix, fix_results, fixed_json, mainFrame>>

\* line 188: analyze_results
m_analyze ==
    /\ mpc = "analyze"
    /\ analysis' = analyze_results(results)
    /\ IF analysis'.exc # "none"
       THEN Leave(1, analysis'.exc)
       ELSE mpc' = "report" /\ UNCHANGED <<exit_code, crash, left_at>>
    /\ UNCHANGED <<cfgVars, file_contents, results, files, baks, args, di, file_keys,
                   doc_errors, files_to_fix, fix_results, fixed_json, mainFrame>>

\* lines 197-222: a report is written, or both formats failed
m_report(ok) ==
    /\ mpc = "report"
    /\ IF ok
       THEN mpc' = "select" /\ UNCHANGED <<exit_code, crash, left_at>>
       ELSE Leave(1, "none")
    /\ UNCHANGED <<cfgVars, file_contents, results, analysis, files, baks, args, di,
                   file_keys, doc_errors, files_to_fix, fix_results, fixed_json,
                   mainFrame>>

\* every document that has a verdict
NonCompliant_All(keys, verdicts, i) == keys

\* lines 226-229: the documents whose verdict has no KPI statement
RECURSIVE NonCompliant(_, _, _)
NonCompliant(keys, verdicts, i) ==
    IF i > Len(keys) THEN <<>>
    ELSE (IF ~verdicts[i].has_kpi_statement THEN <<keys[i]>> ELSE <<>>)
         \o NonCompliant(keys, verdicts, i + 1)

\* lines 225-252: what follows the report
m_select ==
    /\ mpc = "select"
    /\ IF ~(args.fix \/ args.fix_preview)
       THEN Leave(0, "none") /\ UNCHANGED <<files_to_fix, di>>
       ELSE /\ files_to_fix' = NonCompliant(file_keys, results, 1)
            /\ di' = 1
            /\ IF files_to_fix' = <<>>
               THEN Leave(0, "none")
               ELSE /\ mpc' = IF args.fix_preview THEN "preview" ELSE "fixing"
                    /\ UNCHANGED <<exit_code, crash, left_at>>
    /\ UNCHANGED <<cfgVars, file_contents, results, analysis, files, baks, args,
                   file_keys, doc_errors, fix_results, fixed_json, mainFrame>>

\* lines 237-248: the previews are printed
m_preview ==
    /\ mpc = "preview"
    /\ Leave(0, "none")
    /\ UNCHANGED <<cfgVars, file_contents, results, analysis, files, baks, args, di,
                   file_keys, doc_errors, files_to_fix, fix_results, fixed_json,
                   mainFrame>>

\* fix_multiple_files, file_fixer.py lines 92-93, one turn of the loop
m_fix_one(copy, save) ==
    /\ mpc = "fixing" /\ di <= Len(files_to_fix)
    /\ LET d == files_to_fix[di]
           r == fix_file(files[d], baks[d], ~args.no_backup,
                         TemplateText(now.year, now.quarter), copy, save)
       IN /\ files' = [files EXCEPT ![d] = r.file]
          /\ baks' = [baks EXCEPT ![d] = r.bak]
          /\ fix_results' = Append(fix_results, [doc |-> d, success |-> r.success])
    /\ di' = di + 1
    /\ UNCHANGED <<cfgVars, file_contents, results, analysis, exit_code, args, mpc,
                   file_keys, doc_errors, files_to_fix, fixed_json, crash, left_at, mainFrame>>

\* lines 146-148 (fix list: return 0) and 254-255 (scan: on to the list file)
m_fix_done ==
    /\ mpc = "fixing" /\ di > Len(files_to_fix)
    /\ IF args.fix_list # "none"
       THEN Leave(0, "none")
       ELSE mpc' = "writejson" /\ UNCHANGED <<exit_code, crash, left_at>>
    /\ UNCHANGED <<cfgVars, file_contents, results, analysis, files, baks, args, di,
                   file_keys, doc_errors, files_to_fix, fix_results, fixed_json,
                   mainFrame>>

\* lines 257-264: fixed_files.json is written; open() raising leaves main
m_write_json(ok) ==
    /\ mpc = "writejson"
    /\ IF ok
       THEN /\ fixed_json' = [written |-> TRUE, list |-> files_to_fix]
            /\ Leave(0, "none")
       ELSE /\ UNCHANGED fixed_json
            /\ Leave(1, "OSError")
    /\ UNCHANGED <<cfgVars, file_contents, results, analysis, files, baks, args, di,
                   file_keys, doc_errors, files_to_fix, fix_results, mainFrame>>

NextMain ==
    \/ \E a \in ArgSets : m_start(a)
    \/ m_fixlist
    \/ m_scan
    \/ m_extract
    \/ m_check
    \/ m_analyze
    \/ \E ok \in BOOLEAN : m_report(ok)
    \/ m_select
    \/ m_preview
    \/ \E copy \in CopyOutcomes, save \in SaveOutcomes : m_fix_one(copy, save)
    \/ m_fix_done
    \/ \E ok \in BOOLEAN : m_write_json(ok)

SpecMain == InitMain /\ [][NextMain]_vars

(* SpecFixer: calls of FileFixer.fix_file and restore_from_backup on one  *)
(* document, fix_file step by step: copy to <path>.bak, open, save.        *)

\* paragraphs of the document
MaxParas == 3

FixerFiles == {Docx(<<>>), Docx(<< <<"x">> >>), JunkFile, MissingFile}

InitFixer ==
    /\ InitConfig /\ InitCall /\ InitLog /\ InitBatchVars /\ InitReportVars
    /\ InitMainVars /\ InitFixerVars /\ InitParserVars
    /\ files \in {<<f>> : f \in FixerFiles}
    /\ baks = <<MissingFile>>
    /\ files0 = files
    /\ now \in RunMoments

\* fix_file returns: line 42, or the handler of line 77, or line 68
Return(success) ==
    /\ fpc' = "idle"
    /\ fx_ret' = [fx_ret EXCEPT !.success = success]

\* fix_file(file_path, create_backup) is called, lines 41-47
fx_call(create_backup) ==
    /\ fpc = "idle"
    /\ files[1].st = "ok" => Len(files[1].paras) < MaxParas
    /\ fx_backup' = create_backup
    /\ fx_pre' = IF create_backup THEN files[1] ELSE fx_pre
    /\ fx_copied' = IF create_backup THEN FALSE ELSE fx_copied
    /\ fx_ret' = [op |-> "fix", success |-> FALSE, before |-> files[1]]
    /\ fpc' = IF files[1].st = "missing" THEN "idle"
              ELSE IF create_backup THEN "backup" ELSE "open"
    /\ UNCHANGED <<files, baks>>

\* line 48: shutil.copy2(file_path, backup_path)
fx_copy(o) ==
    /\ fpc = "backup"
    /\ baks' = [baks EXCEPT ![1] = Copied(files[1], baks[1], o)]
    /\ fx_copied' = (o = "ok")
    /\ IF AfterCopy(o) = "open"
       THEN fpc' = "open" /\ UNCHANGED fx_ret
       ELSE Return(FALSE)
    /\ UNCHANGED <<files, fx_backup, fx_pre>>

\* line 51: Document(file_path)
fx_open ==
    /\ fpc = "open"
    /\ IF files[1].st = "ok"
       THEN fpc' = "save" /\ UNCHANGED fx_ret
       ELSE Return(FALSE)
    /\ UNCHANGED <<files, baks, fx_backup, fx_pre, fx_copied>>

\* lines 54-74: the template is appended and the document saved
fx_save(o, moment) ==
    /\ fpc = "save"
    /\ files' = [files EXCEPT ![1] =
                    Saved(files[1], TemplateText(moment.year, moment.quarter), o)]
    /\ Return(o = "ok")
    /\ UNCHANGED <<baks, fx_backup, fx_pre, fx_copied>>

\* a call of restore_from_backup(file_path)
fx_restore(o) ==
    /\ fpc = "idle"
    /\ LET r == restore_from_backup(files[1], baks[1], o)
       IN /\ files' = [files EXCEPT ![1] = r.file]
          /\ baks' = [baks EXCEPT ![1] = r.bak]
          /\ fx_ret' = [op |-> "restore", success |-> r.success, before |-> files[1]]
    /\ UNCHANGED <<fpc, fx_backup, fx_pre, fx_copied>>

fixerFrame ==
    <<cfgVars, callVars, logVars, batchVars, reportVars, files0, now, mainVars,
      parserVars>>

NextFixer ==
    \/ \E cb \in BOOLEAN : fx_call(cb) /\ UNCHANGED fixerFrame
    \/ \E o \in CopyOutcomes : fx_copy(o) /\ UNCHANGED fixerFrame
    \/ fx_open /\ UNCHANGED fixerFrame
    \/ \E o \in SaveOutcomes, m \in RunMoments : fx_save(o, m) /\ UNCHANGED fixerFrame
    \/ \E o \in CopyOutcomes : fx_restore(o) /\ UNCHANGED fixerFrame

SpecFixer == InitFixer /\ [][NextFixer]_vars

(* SpecParser: DocxParser(last_paragraphs).parse_file on one document *)

\* paragraphs of the parsed document
MaxParagraphs == 3
\* last_paragraphs ranges over -MaxNegative..MaxLast
MaxNegative == 2
MaxLast == 4

\* paragraph texts: two with text, one of white space only, one empty
ParagraphTexts == {<<"x">>, <<"sp", "KPI", "sp">>, <<"sp">>, <<>>}

RECURSIVE ParagraphLists(_)
ParagraphLists(n) ==
    IF n = 0 THEN {<<>>}
    ELSE LET shorter == ParagraphLists(n - 1)
         IN shorter \cup {Append(l, t) : l \in shorter, t \in ParagraphTexts}

InitParser ==
    /\ InitConfig /\ InitCall /\ InitLog /\ InitBatchVars /\ InitReportVars
    /\ InitMainVars /\ InitFixerVars
    /\ files \in {<<Docx(l)>> : l \in ParagraphLists(MaxParagraphs)}
    /\ baks = <<MissingFile>>
    /\ files0 = files
    /\ now = [year |-> <<"2", "0", "2", "4">>, quarter |-> "si"]
    /\ last_n \in (0 - MaxNegative)..MaxLast
    /\ parsed = NoParse

\* a call of parse_file(file_path)
p_parse ==
    /\ ~parsed.done
    /\ parsed' = [done |-> TRUE, result |-> parse_file(files[1], last_n)]
    /\ UNCHANGED <<cfgVars, callVars, logVars, batchVars, reportVars, fsVars,
                   mainVars, fixerVars, last_n>>

NextParser == p_parse

SpecParser == InitParser /\ [][NextParser]_vars

(* SpecRefix: scan runs of main with --fix, one after another, over a     *)
(* directory holding one document, with the default configuration; each    *)
(* run is one step.                                                        *)

\* runs of main
MaxRuns == 3

\* documents without a KPI statement
RefixFiles == {Docx(<<>>), Docx(<< <<"x">> >>), Docx(<<FragN, <<"x">> >>)}

\* every year and quarter the template may be filled in with
RefixMoments == [year : Years, quarter : QUARTER]

\* doc.save as it ends in these runs: done or refused
RefixOutcomes == {"ok", "denied"}

InitRefix ==
    /\ InitConfig /\ InitCall /\ InitLog /\ InitBatchVars /\ InitReportVars
    /\ InitMainVars /\ InitFixerVars /\ InitParserVars
    /\ files \in {<<f>> : f \in RefixFiles}
    /\ baks = <<MissingFile>>
    /\ files0 = files
    /\ now = [year |-> <<"2", "0", "2", "4">>, quarter |-> "si"]

\* main lines 156-264 with --fix: the document is parsed and classified,
\* and fixed if its verdict has no KPI statement
fix_run(moment, save) ==
    /\ runs < MaxRuns
    /\ runs' = runs + 1
    /\ now' = moment
    /\ LET doc_info == parse_file(files[1], DefaultLastParagraphs)
           contents == <<PyStr(doc_info.last_paragraphs_text)>>
           checked == CheckAll(checker_patterns, contents)
           to_fix == NonCompliant(<<1>>, checked, 1)
           r == fix_file(files[1], baks[1], ~args.no_backup,
                         TemplateText(moment.year, moment.quarter), "ok", save)
       IN /\ file_contents' = contents
          /\ results' = checked
          /\ files_to_fix' = to_fix
          /\ IF to_fix # <<>>
             THEN /\ files' = <<r.file>>
                  /\ baks' = <<r.bak>>
                  /\ fix_results' = Append(fix_results, [doc |-> 1, success |-> r.success])
             ELSE UNCHANGED <<files, baks, fix_results>>
    /\ UNCHANGED <<cfgVars, callVars, logVars, bpc, analysis, reportVars, files0,
                   cfg_file, args, mpc, di, file_keys, doc_errors, fixed_json, crash,
                   left_at, fixerVars, parserVars>>

NextRefix == \E moment \in RunMoments, save \in RefixOutcomes : fix_run(moment, save)

SpecRefix == InitRefix /\ [][NextRefix]_vars

----------------------------------------------------------------------------
(* What a pattern denotes, stated without the matcher: every way each      *)
(* element can take a number of tokens within its limits.                  *)

\* the positions e such that txt[pos..e-1] are n tokens of class cls, lo <= n <= hi
Takes(it, txt, pos) ==
    {n \in it.lo..(Len(txt) + 1 - pos) :
        /\ it.hi < 0 \/ n <= it.hi
        /\ \A j \in pos..(pos + n - 1) : txt[j] \in it.cls}

RECURSIVE Derivations(_, _, _, _)
Derivations(items, k, txt, pos) ==
    IF k > Len(items)
    THEN {[end |-> pos - 1, caps |-> <<PyNone, PyNone>>]}
    ELSE LET it == items[k]
             taken == UNION {
                 {[d EXCEPT !.caps = SetCap(@, it.grp, PyStr(SubSeq(txt, pos, pos + n - 1)))] :
                     d \in Derivations(items, k + 1, txt, pos + n)} :
                 n \in Takes(it, txt, pos)}
             skipped == IF it.opt THEN Derivations(items, k + 1, txt, pos) ELSE {}
         IN taken \cup skipped

\* the occurrences of pattern p in txt
Occurrences(p, txt) ==
    UNION {{[start |-> s, end |-> d.end, caps |-> d.caps] :
                d \in Derivations(Compile(p), 1, txt, s)} :
           s \in 1..(Len(txt) + 1)}

Occurs(p, txt) == Occurrences(p, txt) # {}

\* the capture scheme of a pattern: {year, score} with two groups, {score} with one
HasYearGroup(p) == NGroups(Compile(p)) = 2
ScoreGroup(p) == IF HasYearGroup(p) THEN 2 ELSE 1

\* the least position of the list holding a pattern that occurs in txt (0: none)
Winner(patterns, txt) ==
    LET hits == {i \in 1..Len(patterns) : Occurs(patterns[i], txt)}
    IN IF hits = {} THEN 0 ELSE CHOOSE i \in hits : \A j \in hits : i <= j

\* the digits of a statement that ends "<digits> <spaces> 分"
RECURSIVE TrailingRun(_, _)
TrailingRun(cls, s) ==
    IF Len(s) > 0 /\ s[Len(s)] \in cls
    THEN TrailingRun(cls, SubSeq(s, 1, Len(s) - 1)) \o <<s[Len(s)]>>
    ELSE <<>>

StatedScore(stmt) ==
    LET body == SubSeq(stmt, 1, Len(stmt) - 1)
        spaces == TrailingRun(SPACE, body)
    IN TrailingRun(DIGIT, SubSeq(body, 1, Len(body) - Len(spaces)))

IsSubstring(sub, txt) ==
    \E s \in 1..(Len(txt) + 1) : SubSeq(txt, s, s + Len(sub) - 1) = sub

----------------------------------------------------------------------------
(* Claims about check_text, checked under Spec *)

Returned == pc = "returned"
ReturnedVerdict == pc = "returned" /\ result.exc = "none"
NonEmptyText == text.kind = "str" /\ Len(text.s) > 0

\* C1: for every ordered Pattern Set and every non-empty text, check_text
\* returns the verdict of the lowest-index pattern that occurs in the text:
\* matching_pattern is that pattern, score and year are its extraction.
C1_LowestIndexWins ==
    (Returned /\ NonEmptyText) =>
        LET w == Winner(checker_patterns, text.s)
        IN w # 0 =>
            LET p == checker_patterns[w]
            IN /\ result.exc = "none"
               /\ result.has_kpi_statement
               /\ result.matching_pattern = p
               /\ \E o \in Occurrences(p, text.s) :
                    /\ result.score = o.caps[ScoreGroup(p)]
                    /\ result.year = IF HasYearGroup(p) THEN o.caps[1] ELSE PyNone

\* C2: whatever the position of the winning pattern in the list, the
\* verdict's year is present iff the pattern has a year group, and the
\* verdict's score is the content of the pattern's score group (the second
\* group of a {year, score} pattern, the first of a {score} pattern).
C2_SchemeByPattern ==
    (ReturnedVerdict /\ result.has_kpi_statement) =>
        LET p == result.matching_pattern
        IN /\ (result.year # PyNone) <=> HasYearGroup(p)
           /\ \E o \in Occurrences(p, text.s) :
                /\ result.match_text = PyStr(SubSeq(text.s, o.start, o.end))
                /\ result.score = o.caps[ScoreGroup(p)]

\* C3: in every verdict check_text returns, has_kpi_statement, score,
\* matching_pattern and match_text are present together or absent together,
\* and a present score is not empty.
C3_FieldsAgree ==
    ReturnedVerdict =>
        /\ result.has_kpi_statement <=> (result.score # PyNone)
        /\ result.has_kpi_statement <=> (result.matching_pattern # "None")
        /\ result.has_kpi_statement <=> (result.match_text # PyNone)
        /\ result.has_kpi_statement => Truthy(result.score)

C8_LeftmostOccurrence ==
    (ReturnedVerdict /\ result.has_kpi_statement) =>
        LET occ == Occurrences(result.matching_pattern, text.s)
        IN \E o \in occ :
            /\ \A q \in occ : o.start <= q.start
            /\ result.match_text = PyStr(SubSeq(text.s, o.start, o.end))
            /\ result.score \in {o.caps[1], o.caps[2]}
            /\ result.year \in {PyNone, o.caps[1]}

C8_Witness ==
    /\ ReturnedVerdict
    /\ text = PyStr(FragE7 \o FragE)
    /\ result.matching_pattern = "P4"
    /\ Cardinality({o.start : o \in Occurrences("P4", text.s)}) = 2
    /\ result.score = PyStr(<<"7">>)
    /\ result.match_text = PyStr(FragE7)

----------------------------------------------------------------------------
(* Claims about the Pattern Set, checked under SpecConfig *)

\* the entries of log that are not in seen, each once, in order of first appearance
RECURSIVE FirstInsertions(_, _)
FirstInsertions(log, seen) ==
    IF log = <<>> THEN <<>>
    ELSE IF Head(log) \in seen
         THEN FirstInsertions(Tail(log), seen)
         ELSE <<Head(log)>> \o FirstInsertions(Tail(log), seen \cup {Head(log)})

\* C9: after any sequence of add_kpi_pattern calls the list is the initial
\* list followed by the new distinct patterns in order of first insertion:
\* no entry is inserted twice, no entry moves, new entries are at the end.
C9_AppendOnly ==
    config_patterns = base_patterns \o FirstInsertions(add_log, Range(base_patterns))

C9_Witness ==
    /\ Len(add_log) = 3
    /\ add_log[1] = add_log[3]
    /\ add_log[2] \in Range(base_patterns)
    /\ Len(config_patterns) = Len(base_patterns) + 1

----------------------------------------------------------------------------
(* Claims about the classify-then-summarize pipeline and about            *)
(* analyze_results, checked under SpecBatch                                *)

\* the run of main that collected texts got through analyze_results
PipelineDone == bpc = "analyzed" /\ Len(file_contents) > 0
Analyzed == bpc = "analyzed"

RECURSIVE SumOver(_, _)
SumOver(f, keys) ==
    IF keys = {} THEN 0
    ELSE LET k == CHOOSE x \in keys : TRUE
         IN f[k] + SumOver(f, keys \ {k})

\* C5: when a pattern matched and its score capture is not an integer
\* (not numeric, empty, or a group that did not participate), classifying
\* and summarizing ends in a failure the caller sees; such a document never
\* passes silently.
C5_UnparsableScoreFails ==
    PipelineDone =>
        \A i \in 1..Len(results) :
            results[i].has_kpi_statement =>
                (results[i].score.kind = "str" /\ IsDigits(results[i].score.s))

\* C6: for any verdict map, files_with_kpi + files_without_kpi = total_files
\* and the counts of score_distribution sum to files_with_kpi.
C6_SumLaw ==
    Analyzed =>
        /\ analysis.files_with_kpi + analysis.files_without_kpi = analysis.total_files
        /\ analysis.total_files = Len(results)
        /\ SumOver(analysis.score_distribution, DOMAIN analysis.score_distribution)
              = analysis.files_with_kpi

\* the present verdicts and those among them that carry a score
PresentOnes == {i \in 1..Len(results) : results[i].has_kpi_statement}
ScoredOnes == SelectSeq(results, LAMBDA r : r.score # PyNone /\ r.score # PyStr(<<>>))

\* C7: average_score is the sum of the scores of the present verdicts
\* divided by files_with_kpi, rounded to two decimals, and 0 when
\* files_with_kpi is 0; verdicts without a score count neither in the
\* numerator nor in the denominator.
C7_Average ==
    Analyzed =>
        /\ analysis.average_score =
              IF analysis.files_with_kpi = 0 THEN 0
              ELSE Round2(SumOver([i \in PresentOnes |->
                                      IF Truthy(results[i].score)
                                      THEN PyIntOf(results[i].score) ELSE 0],
                                  PresentOnes),
                          analysis.files_with_kpi)
        /\ analysis.average_score = analyze_results(ScoredOnes).average_score

----------------------------------------------------------------------------
(* Claims about report generation, checked under SpecReport *)

SpreadsheetFailed == excel_state \in {"unavailable", "build_failed", "write_failed"}
PastReport == rpc \in {"rest", "exit"}

\* C10: when the spreadsheet report fails at any step (libraries missing,
\* building the data, writing the file) the text report is produced in its
\* place; main returns 1 only if the text report failed as well, and a
\* fallback that succeeded ends in exit code 0 with the text report written.
C10_DegradesToText ==
    /\ (SpreadsheetFailed /\ PastReport) => txt_state # "none"
    /\ exit_code = 1 => txt_state = "failed"
    /\ (SpreadsheetFailed /\ rpc = "exit") =>
          /\ txt_state = "written" <=> exit_code = 0
          /\ txt_state = "failed" <=> exit_code = 1

C10_Witness ==
    /\ rpc = "exit"
    /\ excel_state = "build_failed"
    /\ attempt = 2
    /\ txt_state = "written"
    /\ exit_code = 0

----------------------------------------------------------------------------
(* Claims about a run of main, checked under SpecMain *)

Docs == 1..Len(files)
ScanRun == mpc # "start" /\ args.fix_list = "none"
\* the loop over the scanned documents has been left
ExtractionOver ==
    /\ ScanRun
    /\ \/ mpc \in {"analyze", "report", "select", "preview", "fixing", "writejson"}
       \/ mpc = "extract" /\ di > Len(files)
       \/ mpc = "exit" /\ (file_keys # <<>> \/ doc_errors # {})
\* the loop over the documents to fix has been left
FixingOver ==
    \/ mpc = "writejson"
    \/ mpc = "fixing" /\ di > Len(files_to_fix)
    \/ mpc = "exit" /\ fix_results # <<>>

\* C11: a document that is missing or cannot be opened when its text is
\* extracted, or missing or not writable when it is fixed, does not stop the
\* batch: every document is tried, the failing ones have their error
\* recorded, all others are parsed, get a verdict, and (in a fix) are fixed.
C11_BatchIsolation ==
    /\ ExtractionOver =>
          /\ \A d \in Docs : (d \in doc_errors) <=> (files0[d].st # "ok")
          /\ \A d \in Docs : (d \in Range(file_keys)) <=> (files0[d].st = "ok")
    /\ (ScanRun /\ results # <<>>) => Len(results) = Len(file_keys)
    /\ FixingOver =>
          /\ Len(fix_results) = Len(files_to_fix)
          /\ \A i \in 1..Len(fix_results) :
                LET d == files_to_fix[i]
                IN /\ fix_results[i].doc = d
                   /\ fix_results[i].success <=>
                         files[d] = Docx(Append(files0[d].paras,
                                                TemplateText(now.year, now.quarter)))
                   /\ ~fix_results[i].success => files[d] \in {files0[d], TornFile}

C11_Witness ==
    /\ mpc = "exit" /\ exit_code = 0
    /\ args.fix /\ ~args.fix_preview /\ args.fix_list = "none"
    /\ files0 = <<JunkFile, Docx(<< <<"x">> >>)>>
    /\ doc_errors = {1}
    /\ file_keys = <<2>>
    /\ fix_results = <<[doc |-> 2, success |-> TRUE]>>

\* C12: main ends with exit code 1 only when the fix list is missing, is
\* not JSON or is no array, or when the report failed in the requested
\* format and in the text fallback; every other run ends with exit code 0.
C12_ExitCodes ==
    mpc = "exit" =>
        /\ exit_code \in {0, 1}
        /\ exit_code = 1 <=>
              \/ left_at = "fixlist" /\ args.fix_list \in {"missing", "badjson", "notarray"}
              \/ left_at = "report"

----------------------------------------------------------------------------
(* Claims about FileFixer, checked under SpecFixer *)

\* C13: during and after a fix_file call with create_backup=True, whenever
\* the document differs from what it held before the call, <path>.bak holds
\* what it held before the call; so a backup copy that fails leaves the
\* document as it was.
C13_BackupBeforeChange ==
    (fx_ret.op = "fix" /\ fx_backup /\ files[1] # fx_ret.before) =>
        /\ baks[1] = fx_ret.before
        /\ fx_copied

C13_Witness ==
    /\ fpc = "idle" /\ fx_ret.op = "fix" /\ fx_backup /\ fx_ret.success
    /\ fx_ret.before = Docx(<< <<"x">> >>)
    /\ baks[1] = fx_ret.before
    /\ files[1].st = "ok" /\ Len(files[1].paras) = 2

Restored == fpc = "idle" /\ fx_ret.op = "restore"

----------------------------------------------------------------------------
(* Claims about the configuration of a run, checked under SpecMain *)

\* the configuration file of the run cannot be read or parsed, or supplies
\* a pattern that is no regular expression
ConfigurationError ==
    \/ cfg_file.err # "none"
    \/ \E i \in 1..Len(cfg_file.kpi_patterns) : cfg_file.kpi_patterns[i] \in Malformed

\* C14: a configuration file that cannot be read or parsed, or that
\* supplies a malformed pattern, does not abort the run: no exception of
\* Config() or of the classification leaves main, and the default pattern
\* list stays in effect for the configuration and the checker.
C14_ConfigErrorsDegrade ==
    (ConfigurationError /\ mpc # "start" /\ ~args.check_deps /\ ~args.version) =>
        /\ crash \notin {"UnicodeDecodeError", "re.error"}
        /\ mpc # "exit" \/ left_at # "start"
        /\ config_patterns = DefaultPatterns
        /\ checker_patterns = DefaultPatterns

\* C16: a run given --fix-preview, whatever the other flags, changes no
\* document and writes no backup.
C16_PreviewChangesNothing ==
    (mpc # "start" /\ args.fix_preview) =>
        /\ files = files0
        /\ \A d \in Docs : baks[d] = MissingFile

\* the document has a verdict without a KPI statement in this run
NonCompliantDoc(d) ==
    \E j \in 1..Len(results) :
        j <= Len(file_keys) /\ file_keys[j] = d /\ ~results[j].has_kpi_statement

\* C17: in a scan run with --fix, every document passed to fix_file has a
\* verdict of this run with has_kpi_statement false and did not fail text
\* extraction; no other document and no other backup is touched; and the
\* fixed_files.json the run writes lists exactly the non-compliant
\* documents, once each, and is written whenever there is one.
C17_FixesOnlyNonCompliant ==
    (ScanRun /\ args.fix) =>
        /\ \A i \in 1..Len(fix_results) :
              /\ NonCompliantDoc(fix_results[i].doc)
              /\ fix_results[i].doc \notin doc_errors
        /\ \A d \in Docs :
              (files[d] # files0[d] \/ baks[d] # MissingFile) => NonCompliantDoc(d)
        /\ fixed_json.written =>
              /\ \A d \in Docs : d \in Range(fixed_json.list) <=> NonCompliantDoc(d)
              /\ Len(fixed_json.list) = Cardinality(Range(fixed_json.list))
        /\ (mpc = "exit" /\ exit_code = 0 /\ ~args.fix_preview
                /\ \E d \in Docs : NonCompliantDoc(d)) => fixed_json.written

C17_Witness ==
    /\ mpc = "exit" /\ exit_code = 0
    /\ args.fix /\ ~args.fix_preview /\ args.fix_list = "none"
    /\ files0 = <<Docx(<<FragE>>), Docx(<< <<"x">> >>)>>
    /\ Len(results) = 2 /\ results[1].has_kpi_statement
    /\ files[1] = files0[1] /\ baks[1] = MissingFile
    /\ fix_results = <<[doc |-> 2, success |-> TRUE]>>
    /\ fixed_json = [written |-> TRUE, list |-> <<2>>]

----------------------------------------------------------------------------
(* Claim about DocxParser, checked under SpecParser *)

\* C15: for a document with P non-empty paragraphs and a paragraph count N
\* (zero, above P and negative included), parse_file returns as
\* last_paragraphs_text the newline-joined last min(N, P) paragraphs in
\* document order (none when min(N, P) is not positive), and
\* total_paragraphs = P.
C15_TrailingParagraphs ==
    parsed.done =>
        LET ps == NonEmptyParagraphs(files[1].paras)
        IN /\ ~parsed.result.error
           /\ parsed.result.total_paragraphs = Len(ps)
           /\ parsed.result.last_paragraphs_text = Join(LastParagraphs_Trailing(ps, last_n))

----------------------------------------------------------------------------
(* Claim about Config and KPIChecker together, checked under SpecConfig *)

\* C18: after any sequence of add_kpi_pattern, set("kpi_patterns", ...) and
\* load_config calls made after a KPIChecker was constructed on the Config,
\* the list the checker classifies against equals get_kpi_patterns() in
\* content and order.
C18_CheckerFollowsConfig == checker_patterns = config_patterns

----------------------------------------------------------------------------
(* Claim about repeated fixing, checked under SpecRefix *)

\* the paragraphs the document has gained since the first run
Appended == Len(files[1].paras) - Len(files0[1].paras)
\* the fix_file calls that returned success
Successes == Cardinality({i \in 1..Len(fix_results) : fix_results[i].success})
\* the verdict of the document as it is now, under the defaults
VerdictNow ==
    check_text(DefaultPatterns,
               PyStr(parse_file(files[1], DefaultLastParagraphs).last_paragraphs_text))

\* C20: with the default template and the default patterns, the text
\* fix_file appends matches no pattern, a fixed document is still
\* classified has_kpi_statement false, every further scan run with --fix
\* calls fix_file on it again, and the document has gained exactly one
\* template paragraph for each fix that succeeded.
C20_EveryRunAppends ==
    /\ \A m \in RefixMoments :
          check_text(DefaultPatterns, PyStr(TemplateText(m.year, m.quarter)))
              = AbsentVerdict
    /\ runs > 0 =>
          /\ files[1].st = "ok"
          /\ ~VerdictNow.has_kpi_statement
          /\ Len(results) = 1 /\ ~results[1].has_kpi_statement
          /\ Len(fix_results) = runs
          /\ Appended = Successes
          /\ \A k \in 1..Appended :
                \E m \in RefixMoments :
                    files[1].paras[Len(files0[1].paras) + k]
                        = TemplateText(m.year, m.quarter)

C20_Witness ==
    /\ runs = MaxRuns
    /\ files0 = <<Docx(<<FragN, <<"x">> >>)>>
    /\ Appended = MaxRuns
    /\ \A i \in 1..Len(fix_results) : fix_results[i].success

=============================================================================
